---- MODULE Spec2Model ----
(***************************************************************************)
(* TPM endorsement of the cr50 security chip: board/cr50/tpm2/endorsement.c *)
(*                                                                         *)
(* tpm_endorse() recovers the endorsement primary seed (EPS) with the      *)
(* hardware key ladder, checks the HMAC tag of the read-only certificate   *)
(* region, validates the two endorsement certificates and stores them and  *)
(* the seed in NV memory; on a tag mismatch it installs a fixed identity.  *)
(*                                                                         *)
(* Conventions of the model                                                *)
(*  - a uint32_t that takes part in the region arithmetic is a record      *)
(*    [hi, lo] of two 16-bit halves, so that sums wrap modulo 2^32;        *)
(*  - the 32-byte seed and key buffers are arrays of 8 words, each word    *)
(*    written by its low-order byte;                                       *)
(*  - HMAC-SHA256 is the free (injective) constructor HMAC(key, msg);      *)
(*  - a certificate's bytes are named by the root key that signed them.    *)
(***************************************************************************)
EXTENDS Integers, Sequences, FiniteSets, TLC

(***************************************************************************)
(* Program constants                                                       *)
(***************************************************************************)
EK_CERT_NV_START_INDEX == 29360128

RO_CERTS_REGION_SIZE == 2048

CROS_PERSO_COMPONENT_TYPE_EPS == 128

CROS_PERSO_COMPONENT_TYPE_RSA_CERT == 129

CROS_PERSO_COMPONENT_TYPE_P256_CERT == 130

\* sizeof(struct ro_cert): 8-byte component info + 4-byte key_id + 4-byte cert_len
SIZEOF_RO_CERT == 16

\* size of the HMAC-SHA256 tag that ends the region
TAG_SIZE == 32

AES256_BLOCK_CIPHER_KEY_SIZE == 32

\* PRIMARY_SEED_SIZE, equal to AES256_BLOCK_CIPHER_KEY_SIZE by the BUILD_ASSERT
PRIMARY_SEED_SIZE == 32

SIZEOF_UINT32 == 4

\* bound of the TPM2B_MAX_NV_BUFFER that store_cert copies the payload into
MAX_NV_BUFFER_SIZE == 1024

K_CROS_FW_MAJOR_VERSION == 0

k_cr50_max_fw_major_version == 254

\* GC_KEYMGR_SHA_TRIG_TRIG_RESET written to SHA_TRIG, as it appears in trace
TRIG_RESET == -1

\* the read of the key registers HKEY_FRR0.., as it appears in trace
READ_FRR0 == -2

KEYMGR_CERT_0 == 0

KEYMGR_CERT_3 == 3

KEYMGR_CERT_4 == 4

KEYMGR_CERT_5 == 5

KEYMGR_CERT_7 == 7

KEYMGR_CERT_15 == 15

KEYMGR_CERT_20 == 20

KEYMGR_CERT_25 == 25

KEYMGR_CERT_26 == 26

SIZEOF_FIXED_RSA_ENDORSEMENT_CERT == 1007

SIZEOF_FIXED_ECC_ENDORSEMENT_CERT == 804

(***************************************************************************)
(* Bounds of the model                                                     *)
(***************************************************************************)
\* number of tpm_endorse invocations in one behaviour
MaxCalls == 2

(***************************************************************************)
(* 32-bit unsigned arithmetic on [hi, lo] pairs of 16-bit halves           *)
(***************************************************************************)
U32(h, l) == [hi |-> h, lo |-> l]

Small32(n) == U32(0, n)

Add32(a, b) ==
  LET l == a.lo + b.lo
      h == a.hi + b.hi + (l \div 65536)
  IN  U32(h % 65536, l % 65536)

\* a > n for a 32-bit a and a constant n < 2^16
Gt32(a, n) == a.hi > 0 \/ a.lo > n

\* the value of a uint32_t assigned to a UINT16 field
Lo16(a) == a.lo

(***************************************************************************)
(* Seed and key buffers: 8 words                                           *)
(***************************************************************************)
WordIdx == 0 .. (PRIMARY_SEED_SIZE \div SIZEOF_UINT32) - 1

ZeroWords == [i \in WordIdx |-> 0]

RECURSIVE Xor(_, _)
Xor(a, b) ==
  IF a = 0 THEN b
  ELSE IF b = 0 THEN a
  ELSE (((a % 2) + (b % 2)) % 2) + 2 * Xor(a \div 2, b \div 2)

\* low-order bytes of the 8 words of FIXED_ENDORSEMENT_SEED
FIXED_ENDORSEMENT_SEED ==
  [i \in WordIdx |-> <<28, 150, 173, 34, 55, 93, 242, 185>>[i + 1]]

\* the INFO1 manufacture-state words: the masked seed written at
\* manufacture
INFO1_EPS == [i \in WordIdx |-> 16 + i]

\* values the key ladder can leave in HKEY_FRR0..7: the ladder the seed was
\* masked with, and the ladder of firmware signed in the other mode (which
\* here unmasks the all-zero seed)
LadderKeys == { [i \in WordIdx |-> 165], [i \in WordIdx |-> 16 + i] }

\* what an uninitialised stack buffer can hold
StackGarbage == { ZeroWords, [i \in WordIdx |-> 222] }

\* a buffer no statement has written yet: its words are indeterminate
Indeterminate == [i \in WordIdx |-> -1]

\* what a buffer can be found to hold once the function has returned:
\* the words that were written, and for the others whatever the stack
\* held
Observed(buf) ==
  { [i \in WordIdx |-> IF buf[i] = -1 THEN g[i] ELSE buf[i]] :
      g \in StackGarbage }

\* NV reserved seed slot before any seed was stored
UnsetSeed == [i \in WordIdx |-> 255]

(***************************************************************************)
(* The RO certificate region                                               *)
(***************************************************************************)
NoHdr == [type |-> 0, len |-> Small32(0)]

NoBody == [rsa |-> NoHdr, rsa_cert |-> "", ecc |-> NoHdr, ecc_cert |-> ""]

HMAC(key, msg) == [key |-> key, msg |-> msg]

\* the tag of a region: hmac over the body (region minus the tag), keyed
\* with hmac(eps, "RSA")
RegionHmac(seed, body) == HMAC(HMAC(seed, "RSA"), body)

NoTag == RegionHmac(ZeroWords, NoBody)

NoRegion ==
  [word0 |-> "unread", rsa |-> NoHdr, ecc |-> NoHdr,
   rsa_cert |-> "", ecc_cert |-> "", tag |-> NoTag]

\* component types a record header can declare
HdrTypes ==
  { CROS_PERSO_COMPONENT_TYPE_EPS, CROS_PERSO_COMPONENT_TYPE_RSA_CERT,
    CROS_PERSO_COMPONENT_TYPE_P256_CERT }

\* declared cert_len values of the RSA record: exactly MAX_NV_BUFFER_SIZE,
\* one more, the largest that passes the region check, one more, and two
\* that wrap the 32-bit sum
RsaLens ==
  { Small32(1024), Small32(1025), Small32(2016), Small32(2017),
    U32(65535, 65520), U32(65535, 65504) }

\* declared cert_len values of the ECC record: none, the largest that fits
\* after an RSA certificate of 1024 bytes, one more, and one that wraps
EccLens ==
  { Small32(0), Small32(992), Small32(993), U32(65535, 65520) }

\* certificate bytes, named by the key that signed them
CertBytes == { "signed_by_prod", "signed_by_test", "signed_by_other" }

(***************************************************************************)
(* State                                                                   *)
(***************************************************************************)
VARIABLES
  pc,        \* position of the (single) thread of control
  calls,     \* tpm_endorse invocations started so far
  result,    \* tpm_endorse's result; at a return, the value returned
  region,    \* what has been read of the RO certificate region
  eps,       \* tpm_endorse's local seed buffer
  frk2,      \* get_decrypted_eps's local key buffer
  kl,        \* compute_frk2's position: [cert, i]
  wi,        \* get_decrypted_eps's loop index, in words
  itop,      \* KEYMGR SHA_ITOP status register
  err_flags, \* KEYMGR HKEY_ERR_FLAGS
  busy,      \* the key-ladder engine runs a triggered step
  region6,   \* GLOBALSEC FLASH_REGION6_CTRL read window open
  region7,   \* GLOBALSEC FLASH_REGION7_CTRL read window open
  nv,        \* NV memory image: [seed, obj]
  nvEntry,   \* nv at the entry of the current invocation
  trace,     \* key-ladder triggers of the current invocation
  log,       \* calls made by the current invocation, in order
  endorsed   \* history: [done, nv], the NV image as the invocation that
             \* returned 1 left it

vars ==
  << pc, calls, result, region, eps, frk2, kl, wi, itop, err_flags,
     busy, region6, region7, nv, nvEntry, trace, log, endorsed >>

hwVars == << itop, err_flags, busy >>

(***************************************************************************)
(* The NV store (TPM2 library), as the endorsement code uses it.  A store  *)
(* s is [nv, log]: the NV image and the calls made so far.                 *)
(***************************************************************************)
NvIndices == { EK_CERT_NV_START_INDEX, EK_CERT_NV_START_INDEX + 1 }

NoData == [bytes |-> "", len |-> 0]

NoObj == [defined |-> FALSE, size |-> 0, data |-> NoData]

EmptyNv == [seed |-> UnsetSeed, obj |-> [x \in NvIndices |-> NoObj]]

Ev(op, a, b, ok) == [op |-> op, a |-> a, b |-> b, ok |-> ok]

Logged(s, e) == [s EXCEPT !.log = Append(@, e)]

\* TPM2_NV_DefineSpace: fails on an index that is already defined, and
\* otherwise as the store decides (envOk)
TPM2_NV_DefineSpace(s, nvIndex, dataSize, envOk) ==
  LET ok == envOk /\ ~s.nv.obj[nvIndex].defined
      s1 == IF ok
            THEN [s EXCEPT !.nv.obj[nvIndex] =
                    [defined |-> TRUE, size |-> dataSize, data |-> NoData]]
            ELSE s
  IN  [s |-> Logged(s1, Ev("Define", nvIndex, dataSize, ok)), ok |-> ok]

\* TPM2_NV_Write at offset 0: fails on an undefined index or a payload
\* larger than the object, and otherwise as the store decides
TPM2_NV_Write(s, nvIndex, data, envOk) ==
  LET ok == /\ envOk
            /\ s.nv.obj[nvIndex].defined
            /\ data.len <= s.nv.obj[nvIndex].size
      s1 == IF ok THEN [s EXCEPT !.nv.obj[nvIndex].data = data] ELSE s
  IN  [s |-> Logged(s1, Ev("Write", nvIndex, data, ok)), ok |-> ok]

\* NvWriteReserved(NV_EP_SEED, &gp.EPSeed): no result
NvWriteReserved(s, seed) ==
  Logged([s EXCEPT !.nv.seed = seed], Ev("WriteReserved", "NV_EP_SEED", seed, TRUE))

\* NvCommit: flushes the NV image to flash, or fails
NvCommit(s, envOk) ==
  [s |-> Logged(s, Ev("Commit", 0, 0, envOk)), ok |-> envOk]

AllFail == [define |-> FALSE, write |-> FALSE, commit |-> FALSE]

AllOk == [define |-> TRUE, write |-> TRUE, commit |-> TRUE]

\* outcomes the store can give to the three calls of one store_cert; a
\* call made after a failed one does not happen, and its outcome is
\* written FALSE
StoreEnv ==
  { e \in [define : BOOLEAN, write : BOOLEAN, commit : BOOLEAN] :
      /\ ~e.define => ~e.write
      /\ ~e.write => ~e.commit }

(***************************************************************************)
(* validate_cert, store_cert, store_eps, install_fixed_certs, handle_cert  *)
(***************************************************************************)
PROD_ENDORSEMENT_CA_RSA_PUB == "signed_by_prod"

TEST_ENDORSEMENT_CA_RSA_PUB == "signed_by_test"

\* the signature of the certificate verifies under the root key
SignatureVerifies(bytes, root) == bytes = root

\* DCRYPTO_x509_verify(cert, len, ca_pub_key): the signature check
DCRYPTO_x509_verify(s, cert, root) ==
  LET ok == SignatureVerifies(cert.bytes, root)
  IN  [s |-> Logged(s, Ev("x509_verify", cert.bytes, root, ok)), ok |-> ok]

\* a function returns: its result joins the log
Returns(s, fn, a, b, ret) ==
  [s |-> Logged(s, Ev(fn, a, b, ret = 1)), ret |-> ret]

\* mutant of validate_cert: the length bound forgotten
validate_cert_unbounded(s, cert_info, cert) ==
  IF /\ cert_info.type # CROS_PERSO_COMPONENT_TYPE_RSA_CERT
     /\ cert_info.type # CROS_PERSO_COMPONENT_TYPE_P256_CERT
  THEN Returns(s, "validate_cert", cert_info.type, cert.bytes, 0)
  ELSE LET p == DCRYPTO_x509_verify(s, cert, PROD_ENDORSEMENT_CA_RSA_PUB)
       IN  IF p.ok
           THEN Returns(p.s, "validate_cert", cert_info.type, cert.bytes, 1)
           ELSE LET t == DCRYPTO_x509_verify(p.s, cert,
                                             TEST_ENDORSEMENT_CA_RSA_PUB)
                IN  Returns(t.s, "validate_cert", cert_info.type,
                            cert.bytes, IF t.ok THEN 1 ELSE 0)

\* mutant of validate_cert: the length bound applied after the signature
\* check
validate_cert_verify_first(s, cert_info, cert) ==
  IF /\ cert_info.type # CROS_PERSO_COMPONENT_TYPE_RSA_CERT
     /\ cert_info.type # CROS_PERSO_COMPONENT_TYPE_P256_CERT
  THEN Returns(s, "validate_cert", cert_info.type, cert.bytes, 0)
  ELSE LET p == DCRYPTO_x509_verify(s, cert, PROD_ENDORSEMENT_CA_RSA_PUB)
           t == DCRYPTO_x509_verify(p.s, cert, TEST_ENDORSEMENT_CA_RSA_PUB)
           v == IF p.ok THEN p ELSE t
       IN  Returns(v.s, "validate_cert", cert_info.type, cert.bytes,
                   IF v.ok /\ ~Gt32(cert.len, MAX_NV_BUFFER_SIZE)
                   THEN 1 ELSE 0)

\* mutant of validate_cert: the test root forgotten
validate_cert_prod_only(s, cert_info, cert) ==
  IF /\ cert_info.type # CROS_PERSO_COMPONENT_TYPE_RSA_CERT
     /\ cert_info.type # CROS_PERSO_COMPONENT_TYPE_P256_CERT
  THEN Returns(s, "validate_cert", cert_info.type, cert.bytes, 0)
  ELSE IF Gt32(cert.len, MAX_NV_BUFFER_SIZE)
  THEN Returns(s, "validate_cert", cert_info.type, cert.bytes, 0)
  ELSE LET p == DCRYPTO_x509_verify(s, cert, PROD_ENDORSEMENT_CA_RSA_PUB)
       IN  Returns(p.s, "validate_cert", cert_info.type, cert.bytes,
                   IF p.ok THEN 1 ELSE 0)

validate_cert(s, cert_info, cert) ==
  IF /\ cert_info.type # CROS_PERSO_COMPONENT_TYPE_RSA_CERT
     /\ cert_info.type # CROS_PERSO_COMPONENT_TYPE_P256_CERT
  THEN Returns(s, "validate_cert", cert_info.type, cert.bytes, 0)
  ELSE IF Gt32(cert.len, MAX_NV_BUFFER_SIZE)
  THEN Returns(s, "validate_cert", cert_info.type, cert.bytes, 0)
  ELSE LET p == DCRYPTO_x509_verify(s, cert, PROD_ENDORSEMENT_CA_RSA_PUB)
       IN  IF p.ok
           THEN Returns(p.s, "validate_cert", cert_info.type, cert.bytes, 1)
           ELSE LET t == DCRYPTO_x509_verify(p.s, cert,
                                             TEST_ENDORSEMENT_CA_RSA_PUB)
                IN  Returns(t.s, "validate_cert", cert_info.type,
                            cert.bytes, IF t.ok THEN 1 ELSE 0)

\* mutant of NvIndexOf: the ECC index forgotten
NvIndexOf_rsa_only(component_type) == EK_CERT_NV_START_INDEX

\* mutant of NvIndexOf: the two indices exchanged
NvIndexOf_swapped(component_type) ==
  IF component_type = CROS_PERSO_COMPONENT_TYPE_RSA_CERT
  THEN EK_CERT_NV_START_INDEX + 1
  ELSE EK_CERT_NV_START_INDEX

\* nv_index of store_cert
NvIndexOf(component_type) ==
  IF component_type = CROS_PERSO_COMPONENT_TYPE_RSA_CERT
  THEN EK_CERT_NV_START_INDEX
  ELSE EK_CERT_NV_START_INDEX + 1

\* mutant of store_cert: a failed TPM2_NV_DefineSpace taken to mean the
\* certificate is already stored
store_cert_define_failure_ok(s, component_type, cert, cert_len, env) ==
  LET nv_index == NvIndexOf(component_type)
      d == TPM2_NV_DefineSpace(s, nv_index, Lo16(cert_len), env.define)
  IN  IF ~d.ok
      THEN Returns(d.s, "store_cert", component_type, cert, 1)
      ELSE LET w == TPM2_NV_Write(d.s, nv_index,
                                  [bytes |-> cert, len |-> Lo16(cert_len)],
                                  env.write)
           IN  IF ~w.ok
               THEN Returns(w.s, "store_cert", component_type, cert, 0)
               ELSE LET c == NvCommit(w.s, env.commit)
                    IN  Returns(c.s, "store_cert", component_type, cert,
                                IF c.ok THEN 1 ELSE 0)

\* mutant of store_cert: the result of TPM2_NV_DefineSpace dropped
store_cert_ignoring_define(s, component_type, cert, cert_len, env) ==
  LET nv_index == NvIndexOf(component_type)
      d == TPM2_NV_DefineSpace(s, nv_index, Lo16(cert_len), env.define)
      w == TPM2_NV_Write(d.s, nv_index,
                         [bytes |-> cert, len |-> Lo16(cert_len)], TRUE)
  IN  IF ~w.ok
      THEN Returns(w.s, "store_cert", component_type, cert, 0)
      ELSE LET c == NvCommit(w.s, TRUE)
           IN  Returns(c.s, "store_cert", component_type, cert,
                       IF c.ok THEN 1 ELSE 0)

\* mutant of store_cert: the result of NvCommit dropped
store_cert_ignoring_commit(s, component_type, cert, cert_len, env) ==
  LET nv_index == NvIndexOf(component_type)
      d == TPM2_NV_DefineSpace(s, nv_index, Lo16(cert_len), env.define)
  IN  IF ~d.ok
      THEN Returns(d.s, "store_cert", component_type, cert, 0)
      ELSE LET w == TPM2_NV_Write(d.s, nv_index,
                                  [bytes |-> cert, len |-> Lo16(cert_len)],
                                  env.write)
           IN  IF ~w.ok
               THEN Returns(w.s, "store_cert", component_type, cert, 0)
               ELSE Returns(NvCommit(w.s, env.commit).s, "store_cert",
                            component_type, cert, 1)

store_cert(s, component_type, cert, cert_len, env) ==
  LET nv_index == NvIndexOf(component_type)
      d == TPM2_NV_DefineSpace(s, nv_index, Lo16(cert_len), env.define)
  IN  IF ~d.ok
      THEN Returns(d.s, "store_cert", component_type, cert, 0)
      ELSE LET w == TPM2_NV_Write(d.s, nv_index,
                                  [bytes |-> cert, len |-> Lo16(cert_len)],
                                  env.write)
           IN  IF ~w.ok
               THEN Returns(w.s, "store_cert", component_type, cert, 0)
               ELSE LET c == NvCommit(w.s, env.commit)
                    IN  Returns(c.s, "store_cert", component_type, cert,
                                IF c.ok THEN 1 ELSE 0)

\* mutant of store_eps: the result of NvCommit dropped
store_eps_ignoring_commit(s, seed, envCommit) ==
  LET c == NvCommit(NvWriteReserved(s, seed), envCommit)
  IN  Returns(c.s, "store_eps", 0, seed, 1)

store_eps(s, seed, envCommit) ==
  LET c == NvCommit(NvWriteReserved(s, seed), envCommit)
  IN  Returns(c.s, "store_eps", 0, seed, IF c.ok THEN 1 ELSE 0)

\* outcomes the store can give during install_fixed_certs, written in
\* the same way
FixedEnv ==
  { e \in [eps : BOOLEAN, rsa : StoreEnv, ecc : StoreEnv] :
      /\ ~e.eps => e.rsa = AllFail
      /\ e.rsa # AllOk => e.ecc = AllFail }

\* mutant of install_fixed_certs: the certificates stored whatever
\* store_eps returned
install_fixed_certs_keep_going(s, env) ==
  LET s0 == Logged(s, Ev("install_fixed_certs", 0, 0, TRUE))
      e  == store_eps(s0, FIXED_ENDORSEMENT_SEED, env.eps)
      r  == store_cert(e.s, CROS_PERSO_COMPONENT_TYPE_RSA_CERT,
                       "FIXED_RSA_ENDORSEMENT_CERT",
                       Small32(SIZEOF_FIXED_RSA_ENDORSEMENT_CERT),
                       env.rsa)
  IN  IF r.ret = 0
      THEN [s |-> r.s, ret |-> 0]
      ELSE LET c == store_cert(r.s,
                               CROS_PERSO_COMPONENT_TYPE_P256_CERT,
                               "FIXED_ECC_ENDORSEMENT_CERT",
                               Small32(SIZEOF_FIXED_ECC_ENDORSEMENT_CERT),
                               env.ecc)
           IN  [s |-> c.s, ret |-> IF c.ret = 0 THEN 0 ELSE 1]

\* mutant of install_fixed_certs: the ECC certificate forgotten
install_fixed_certs_without_ecc(s, env) ==
  LET s0 == Logged(s, Ev("install_fixed_certs", 0, 0, TRUE))
      e  == store_eps(s0, FIXED_ENDORSEMENT_SEED, env.eps)
  IN  IF e.ret = 0
      THEN [s |-> e.s, ret |-> 0]
      ELSE LET r == store_cert(e.s, CROS_PERSO_COMPONENT_TYPE_RSA_CERT,
                               "FIXED_RSA_ENDORSEMENT_CERT",
                               Small32(SIZEOF_FIXED_RSA_ENDORSEMENT_CERT),
                               env.rsa)
           IN  [s |-> r.s, ret |-> IF r.ret = 0 THEN 0 ELSE 1]

install_fixed_certs(s, env) ==
  LET s0 == Logged(s, Ev("install_fixed_certs", 0, 0, TRUE))
      e  == store_eps(s0, FIXED_ENDORSEMENT_SEED, env.eps)
  IN  IF e.ret = 0
      THEN [s |-> e.s, ret |-> 0]
      ELSE LET r == store_cert(e.s, CROS_PERSO_COMPONENT_TYPE_RSA_CERT,
                               "FIXED_RSA_ENDORSEMENT_CERT",
                               Small32(SIZEOF_FIXED_RSA_ENDORSEMENT_CERT),
                               env.rsa)
           IN  IF r.ret = 0
               THEN [s |-> r.s, ret |-> 0]
               ELSE LET c == store_cert(r.s,
                               CROS_PERSO_COMPONENT_TYPE_P256_CERT,
                               "FIXED_ECC_ENDORSEMENT_CERT",
                               Small32(SIZEOF_FIXED_ECC_ENDORSEMENT_CERT),
                               env.ecc)
                    IN  [s |-> c.s, ret |-> IF c.ret = 0 THEN 0 ELSE 1]

\* mutant of handle_cert: the certificate stored whatever validate_cert
\* returned
handle_cert_store_anyway(s, cert_info, cert, env) ==
  LET v  == validate_cert(s, cert_info, cert)
      st == store_cert(v.s, cert_info.type, cert.bytes, cert.len, env)
  IN  IF st.ret = 0
      THEN [s |-> st.s, ret |-> 0]
      ELSE [s |-> st.s, ret |-> 1]

handle_cert(s, cert_info, cert, env) ==
  LET v == validate_cert(s, cert_info, cert)
  IN  IF v.ret = 0
      THEN [s |-> v.s, ret |-> 0]
      ELSE LET st == store_cert(v.s, cert_info.type, cert.bytes, cert.len,
                                env)
           IN  IF st.ret = 0
               THEN [s |-> st.s, ret |-> 0]
               ELSE [s |-> st.s, ret |-> 1]

(***************************************************************************)
(* Initial state: a chip after reset, nothing stored in NV                 *)
(***************************************************************************)
\* no invocation has returned 1 yet
NotEndorsed == [done |-> FALSE, nv |-> EmptyNv]

Init ==
  /\ pc = "idle"
  /\ calls = 0
  /\ result = 0
  /\ region = NoRegion
  /\ eps = ZeroWords
  /\ frk2 = ZeroWords
  /\ kl = [cert |-> KEYMGR_CERT_0, i |-> 0]
  /\ wi = 0
  /\ itop \in {0, 1}
  /\ err_flags = FALSE
  /\ busy = FALSE
  /\ region6 = FALSE
  /\ region7 = FALSE
  /\ nv = EmptyNv
  /\ nvEntry = EmptyNv
  /\ trace = << >>
  /\ log = << >>
  /\ endorsed = NotEndorsed

Store == [nv |-> nv, log |-> log]

SetStore(s) ==
  /\ nv' = s.nv
  /\ log' = s.log

\* tpm_endorse returns r
Return(r) ==
  /\ pc' = "idle"
  /\ result' = r

(***************************************************************************)
(* tpm_endorse, entry: flash_cert_region_enable and the first-boot test    *)
(***************************************************************************)
flash_cert_region_enable == region6' = TRUE

\* mutant of FirstBoot: the first-boot test left out
FirstBoot_never(w0) == FALSE

\* *c == 0xFFFFFFFF: the first word of the region is erased flash
FirstBoot(w0) == w0 = "erased"

tpm_endorse_enter ==
  /\ pc = "idle"
  /\ calls < MaxCalls
  /\ calls' = calls + 1
  /\ flash_cert_region_enable
  /\ nvEntry' = nv
  /\ trace' = << >>
  /\ log' = << >>
  /\ wi' = 0
  /\ kl' = [cert |-> KEYMGR_CERT_0, i |-> 0]
  \* eps is an uninitialised local
  /\ \E w0 \in {"erased", "written"} :
       /\ region' = [NoRegion EXCEPT !.word0 = w0]
       /\ IF FirstBoot(w0)
          THEN eps' \in Observed(Indeterminate) /\ Return(0)
          ELSE /\ eps' = Indeterminate
               /\ pc' = "compute_frk2"
               /\ result' = 0
  /\ UNCHANGED << frk2, hwVars, region7, nv, endorsed >>

(***************************************************************************)
(* compute_frk2 and hw_key_ladder_step                                     *)
(***************************************************************************)
\* kl.cert once compute_frk2 has run its last step
LADDER_DONE == -3

\* mutant of NextStep: the loop of step 25 runs once more
NextStep_one_more(k) ==
  CASE k.cert = KEYMGR_CERT_0  -> [cert |-> KEYMGR_CERT_3, i |-> 0]
    [] k.cert = KEYMGR_CERT_3  -> [cert |-> KEYMGR_CERT_4, i |-> 0]
    [] k.cert = KEYMGR_CERT_4  -> [cert |-> KEYMGR_CERT_5, i |-> 0]
    [] k.cert = KEYMGR_CERT_5  -> [cert |-> KEYMGR_CERT_7, i |-> 0]
    [] k.cert = KEYMGR_CERT_7  -> [cert |-> KEYMGR_CERT_15, i |-> 0]
    [] k.cert = KEYMGR_CERT_15 -> [cert |-> KEYMGR_CERT_20, i |-> 0]
    [] k.cert = KEYMGR_CERT_20 -> [cert |-> KEYMGR_CERT_25, i |-> 0]
    [] k.cert = KEYMGR_CERT_25 ->
         IF k.i + 1 <= k_cr50_max_fw_major_version - K_CROS_FW_MAJOR_VERSION
         THEN [cert |-> KEYMGR_CERT_25, i |-> k.i + 1]
         ELSE [cert |-> KEYMGR_CERT_26, i |-> k.i + 1]
    [] OTHER -> [cert |-> LADDER_DONE, i |-> k.i]

\* the step compute_frk2 runs after step k completed without fault
NextStep(k) ==
  CASE k.cert = KEYMGR_CERT_0  -> [cert |-> KEYMGR_CERT_3, i |-> 0]
    [] k.cert = KEYMGR_CERT_3  -> [cert |-> KEYMGR_CERT_4, i |-> 0]
    [] k.cert = KEYMGR_CERT_4  -> [cert |-> KEYMGR_CERT_5, i |-> 0]
    [] k.cert = KEYMGR_CERT_5  -> [cert |-> KEYMGR_CERT_7, i |-> 0]
    [] k.cert = KEYMGR_CERT_7  -> [cert |-> KEYMGR_CERT_15, i |-> 0]
    [] k.cert = KEYMGR_CERT_15 -> [cert |-> KEYMGR_CERT_20, i |-> 0]
    [] k.cert = KEYMGR_CERT_20 ->
         IF 0 < k_cr50_max_fw_major_version - K_CROS_FW_MAJOR_VERSION
         THEN [cert |-> KEYMGR_CERT_25, i |-> 0]
         ELSE [cert |-> KEYMGR_CERT_26, i |-> 0]
    [] k.cert = KEYMGR_CERT_25 ->
         IF k.i + 1 < k_cr50_max_fw_major_version - K_CROS_FW_MAJOR_VERSION
         THEN [cert |-> KEYMGR_CERT_25, i |-> k.i + 1]
         ELSE [cert |-> KEYMGR_CERT_26, i |-> k.i + 1]
    [] OTHER -> [cert |-> LADDER_DONE, i |-> k.i]

\* mutant of Fault: the fault flags not looked at
Fault_ignored(flags) == FALSE

\* !!GREG32(KEYMGR, HKEY_ERR_FLAGS), the result of hw_key_ladder_step
Fault(flags) == flags

\* GREG32(KEYMGR, SHA_TRIG) = GC_KEYMGR_SHA_TRIG_TRIG_RESET_MASK
compute_frk2_reset ==
  /\ pc = "compute_frk2"
  /\ trace' = Append(trace, TRIG_RESET)
  /\ busy' = FALSE
  /\ kl' = [cert |-> KEYMGR_CERT_0, i |-> 0]
  /\ pc' = "step_trigger"
  /\ UNCHANGED << calls, result, region, eps, frk2, wi, itop,
                  err_flags, region6, region7, nv, nvEntry, log,
                  endorsed >>

\* a step that triggers without clearing the status first
hw_key_ladder_step_trigger_no_clear ==
  /\ pc = "step_trigger"
  /\ busy' = TRUE
  /\ trace' = Append(trace, kl.cert)
  /\ pc' = "step_poll"
  /\ UNCHANGED << calls, result, region, eps, frk2, kl, wi, itop,
                  err_flags, region6, region7, nv, nvEntry, log,
                  endorsed >>

\* a step that programs the certificate but never sets the GO bit
hw_key_ladder_step_trigger_no_go ==
  /\ pc = "step_trigger"
  /\ itop' = 0
  /\ busy' = FALSE
  /\ trace' = Append(trace, kl.cert)
  /\ pc' = "step_poll"
  /\ UNCHANGED << calls, result, region, eps, frk2, kl, wi,
                  err_flags, region6, region7, nv, nvEntry, log,
                  endorsed >>

\* hw_key_ladder_step up to the trigger: clear status, select the
\* certificate, enable the done interrupt, go
hw_key_ladder_step_trigger ==
  /\ pc = "step_trigger"
  /\ itop' = 0
  /\ busy' = TRUE
  /\ trace' = Append(trace, kl.cert)
  /\ pc' = "step_poll"
  /\ UNCHANGED << calls, result, region, eps, frk2, kl, wi,
                  err_flags, region6, region7, nv, nvEntry, log,
                  endorsed >>

\* the engine finishes the triggered step: it raises the status and
\* reports a fault or none
hw_engine_done ==
  /\ busy
  /\ busy' = FALSE
  /\ itop' = 1
  /\ err_flags' \in BOOLEAN
  /\ UNCHANGED << pc, calls, result, region, eps, frk2, kl, wi,
                  region6, region7, nv, nvEntry, trace, log,
                  endorsed >>

\* hw_key_ladder_step from the end of the poll: clear status, read the
\* fault flags; then compute_frk2 goes on, or returns 0 and with it
\* get_decrypted_eps and tpm_endorse
hw_key_ladder_step_done ==
  /\ pc = "step_poll"
  /\ itop # 0
  /\ itop' = 0
  /\ IF Fault(err_flags)
     THEN /\ log' = Append(log, Ev("get_decrypted_eps", 0, 0, FALSE))
          /\ eps' \in Observed(eps)
          /\ Return(0)
          /\ UNCHANGED kl
     ELSE /\ kl' = NextStep(kl)
          /\ pc' = IF NextStep(kl).cert = LADDER_DONE
                   THEN "read_key" ELSE "step_trigger"
          /\ UNCHANGED << log, result, eps >>
  /\ UNCHANGED << calls, region, frk2, wi, err_flags, busy,
                  region6, region7, nv, nvEntry, trace, endorsed >>

flash_info_read_enable == region7' = TRUE

flash_info_read_disable == region7' = FALSE

\* compute_frk2's memcpy of HKEY_FRR0.. into frk2 and return 1, then
\* get_decrypted_eps opens the INFO read window
compute_frk2_read_key ==
  /\ pc = "read_key"
  /\ frk2' \in LadderKeys
  /\ trace' = Append(trace, READ_FRR0)
  /\ flash_info_read_enable
  /\ log' = Append(log, Ev("flash_info_read_enable", 0, 0, TRUE))
  /\ wi' = 0
  /\ pc' = "read_word"
  /\ UNCHANGED << calls, result, region, eps, kl, hwVars, region6,
                  nv, nvEntry, endorsed >>

(***************************************************************************)
(* get_decrypted_eps after the key was derived                             *)
(***************************************************************************)
XorWords(a, b) == [i \in WordIdx |-> Xor(a[i], b[i])]

\* a read loop that returns on a failed word without clearing the key
get_decrypted_eps_read_word_key_left ==
  /\ pc = "read_word"
  /\ \E ok \in BOOLEAN :
       /\ log' = IF ok
                 THEN Append(log, Ev("read_word", wi, 0, TRUE))
                 ELSE Append(Append(log, Ev("read_word", wi, 0, FALSE)),
                             Ev("get_decrypted_eps", 0, 0, FALSE))
       /\ IF ok
          THEN /\ eps' = [eps EXCEPT ![wi] = INFO1_EPS[wi]]
               /\ wi' = wi + 1
               /\ pc' = IF (wi + 1) * SIZEOF_UINT32 < PRIMARY_SEED_SIZE
                        THEN "read_word" ELSE "decrypt"
               /\ UNCHANGED << frk2, result >>
          ELSE /\ eps' \in Observed(eps)
               /\ Return(0)
               /\ UNCHANGED << frk2, wi >>
  /\ UNCHANGED << calls, region, kl, hwVars, region6, region7, nv,
                  nvEntry, trace, endorsed >>

\* one round of the read loop: flash_physical_info_read_word succeeds and
\* the word is copied into eps, or it fails and get_decrypted_eps returns 0
\* (and tpm_endorse with it)
get_decrypted_eps_read_word ==
  /\ pc = "read_word"
  /\ \E ok \in BOOLEAN :
       /\ log' = IF ok
                 THEN Append(log, Ev("read_word", wi, 0, TRUE))
                 ELSE Append(Append(log, Ev("read_word", wi, 0, FALSE)),
                             Ev("get_decrypted_eps", 0, 0, FALSE))
       /\ IF ok
          THEN /\ eps' = [eps EXCEPT ![wi] = INFO1_EPS[wi]]
               /\ wi' = wi + 1
               /\ pc' = IF (wi + 1) * SIZEOF_UINT32 < PRIMARY_SEED_SIZE
                        THEN "read_word" ELSE "decrypt"
               /\ UNCHANGED << frk2, result >>
          ELSE /\ frk2' = ZeroWords
               /\ eps' \in Observed(eps)
               /\ Return(0)
               /\ UNCHANGED wi
  /\ UNCHANGED << calls, region, kl, hwVars, region6, region7, nv,
                  nvEntry, trace, endorsed >>

\* close the INFO window, unmask the seed, clear the key, return 1
get_decrypted_eps_decrypt ==
  /\ pc = "decrypt"
  /\ flash_info_read_disable
  /\ eps' = XorWords(eps, frk2)
  /\ frk2' = ZeroWords
  /\ log' = Append(log, Ev("get_decrypted_eps", 0, XorWords(eps, frk2), TRUE))
  /\ pc' = "rsa_size"
  /\ UNCHANGED << calls, result, region, kl, wi, hwVars, region6,
                  nv, nvEntry, trace, endorsed >>

(***************************************************************************)
(* tpm_endorse: the records of the region                                  *)
(***************************************************************************)
\* (2 * sizeof(struct ro_cert)) + rsa cert_len > RO_CERTS_REGION_SIZE
RsaSizeBad(rsa_len) ==
  Gt32(Add32(Small32(2 * SIZEOF_RO_CERT), rsa_len), RO_CERTS_REGION_SIZE)

\* (2 * sizeof(struct ro_cert)) + rsa cert_len + ecc cert_len
\*   > RO_CERTS_REGION_SIZE
EccSizeBad(rsa_len, ecc_len) ==
  Gt32(Add32(Add32(Small32(2 * SIZEOF_RO_CERT), rsa_len), ecc_len),
       RO_CERTS_REGION_SIZE)

\* offset in the region of the ECC record: sizeof(struct ro_cert) + rsa
\* cert_len
EccOffset(rsa_len) == Add32(Small32(SIZEOF_RO_CERT), rsa_len)

\* unpack the RSA record and check its size
tpm_endorse_rsa_size ==
  /\ pc = "rsa_size"
  /\ \E t \in HdrTypes, l \in RsaLens :
       /\ region' = [region EXCEPT !.rsa = [type |-> t, len |-> l]]
       /\ IF RsaSizeBad(l)
          THEN Return(0)
          ELSE pc' = "ecc_size" /\ UNCHANGED result
  /\ UNCHANGED << calls, eps, frk2, kl, wi, hwVars, region6,
                  region7, nv, nvEntry, trace, log, endorsed >>

\* mutant of tpm_endorse_ecc_size: the component types not verified
tpm_endorse_ecc_size_untyped ==
  /\ pc = "ecc_size"
  /\ \E t \in HdrTypes, l \in EccLens :
       LET hdr == IF EccOffset(region.rsa.len) = Small32(0)
                  THEN region.rsa
                  ELSE [type |-> t, len |-> l]
       IN  /\ region' = [region EXCEPT !.ecc = hdr]
           /\ IF EccSizeBad(region.rsa.len, hdr.len)
              THEN Return(0)
              ELSE pc' = "hmac" /\ UNCHANGED result
  /\ UNCHANGED << calls, eps, frk2, kl, wi, hwVars, region6,
                  region7, nv, nvEntry, trace, log, endorsed >>

\* unpack the ECC record, check its size, then both component types.  An
\* ECC record at offset 0 is the RSA record.
tpm_endorse_ecc_size ==
  /\ pc = "ecc_size"
  /\ \E t \in HdrTypes, l \in EccLens :
       LET hdr == IF EccOffset(region.rsa.len) = Small32(0)
                  THEN region.rsa
                  ELSE [type |-> t, len |-> l]
       IN  /\ region' = [region EXCEPT !.ecc = hdr]
           /\ IF EccSizeBad(region.rsa.len, hdr.len)
              THEN Return(0)
              ELSE IF region.rsa.type # CROS_PERSO_COMPONENT_TYPE_RSA_CERT
              THEN Return(0)
              ELSE IF hdr.type # CROS_PERSO_COMPONENT_TYPE_P256_CERT
              THEN Return(0)
              ELSE pc' = "hmac" /\ UNCHANGED result
  /\ UNCHANGED << calls, eps, frk2, kl, wi, hwVars, region6,
                  region7, nv, nvEntry, trace, log, endorsed >>

(***************************************************************************)
(* tpm_endorse: the region tag, and the fixed endorsement on a mismatch    *)
(***************************************************************************)
BodyOf(r) ==
  [rsa |-> r.rsa, rsa_cert |-> r.rsa_cert, ecc |-> r.ecc,
   ecc_cert |-> r.ecc_cert]

\* a body that differs from b (in the bytes of the RSA certificate)
Altered(b) ==
  [b EXCEPT !.rsa_cert =
     CASE @ = "signed_by_prod" -> "signed_by_test"
       [] @ = "signed_by_test" -> "signed_by_other"
       [] OTHER -> "signed_by_prod"]

\* tags a region with body b can carry on this chip: computed at
\* manufacture over b or over what b was before it was altered, with the
\* seed either ladder key unmasks
TagsFor(b) ==
  { RegionHmac(XorWords(INFO1_EPS, k), x) : k \in LadderKeys, x \in {b, Altered(b)} }

\* mutant of TagMismatch: the result of memcmp dropped
TagMismatch_never(r, seed) == FALSE

\* mutant of TagMismatch: the HMAC keyed with a constant instead of the seed
TagMismatch_unkeyed(r, seed) == r.tag.msg # BodyOf(r)

\* mutant of TagMismatch: only the key of the tag compared, not the body
TagMismatch_key_only(r, seed) == r.tag.key # HMAC(seed, "RSA")

\* memcmp(p + RO_CERTS_REGION_SIZE - 32, DCRYPTO_HMAC_final(&hmac), 32) != 0
TagMismatch(r, seed) == r.tag # RegionHmac(seed, BodyOf(r))

tpm_endorse_hmac ==
  /\ pc = "hmac"
  /\ \E rc \in CertBytes, ec \in CertBytes :
       LET r0 == [region EXCEPT !.rsa_cert = rc, !.ecc_cert = ec]
       IN  \E tag \in TagsFor(BodyOf(r0)) :
             LET r == [r0 EXCEPT !.tag = tag]
             IN  /\ region' = r
                 /\ IF TagMismatch(r, eps)
                    THEN \E env \in FixedEnv :
                           /\ SetStore(install_fixed_certs(
                                 Logged(Store, Ev("memcmp", 0, 0, FALSE)),
                                 env).s)
                           /\ eps' = ZeroWords
                           /\ Return(0)
                    ELSE /\ log' = Append(log, Ev("memcmp", 0, 0, TRUE))
                         /\ pc' = "rsa_cert"
                         /\ UNCHANGED << nv, eps, result >>
  /\ UNCHANGED << calls, frk2, kl, wi, hwVars, region6, region7,
                  nvEntry, trace, endorsed >>

(***************************************************************************)
(* tpm_endorse: the two certificates and the seed                          *)
(***************************************************************************)
tpm_endorse_rsa_cert ==
  /\ pc = "rsa_cert"
  /\ \E env \in StoreEnv :
       LET h == handle_cert(Store, region.rsa,
                            [bytes |-> region.rsa_cert,
                             len |-> region.rsa.len], env)
       IN  /\ SetStore(h.s)
           /\ IF h.ret = 0
              THEN eps' = ZeroWords /\ Return(0)
              ELSE pc' = "ecc_cert" /\ UNCHANGED << eps, result >>
  /\ UNCHANGED << calls, region, frk2, kl, wi, hwVars, region6,
                  region7, nvEntry, trace, endorsed >>

\* mutant of tpm_endorse_ecc_cert: the RSA object removed again when the
\* ECC record fails
tpm_endorse_ecc_cert_rollback ==
  /\ pc = "ecc_cert"
  /\ \E env \in StoreEnv :
       LET h == handle_cert(Store, region.ecc,
                            [bytes |-> region.ecc_cert,
                             len |-> region.ecc.len], env)
       IN  IF h.ret = 0
           THEN /\ nv' = [h.s.nv EXCEPT
                            !.obj[EK_CERT_NV_START_INDEX] = NoObj]
                /\ log' = h.s.log
                /\ eps' = ZeroWords
                /\ Return(0)
           ELSE /\ SetStore(h.s)
                /\ pc' = "store_eps"
                /\ UNCHANGED << eps, result >>
  /\ UNCHANGED << calls, region, frk2, kl, wi, hwVars, region6,
                  region7, nvEntry, trace, endorsed >>

tpm_endorse_ecc_cert ==
  /\ pc = "ecc_cert"
  /\ \E env \in StoreEnv :
       LET h == handle_cert(Store, region.ecc,
                            [bytes |-> region.ecc_cert,
                             len |-> region.ecc.len], env)
       IN  /\ SetStore(h.s)
           /\ IF h.ret = 0
              THEN eps' = ZeroWords /\ Return(0)
              ELSE pc' = "store_eps" /\ UNCHANGED << eps, result >>
  /\ UNCHANGED << calls, region, frk2, kl, wi, hwVars, region6,
                  region7, nvEntry, trace, endorsed >>

\* mutant of tpm_endorse_store_eps: the fixed seed stored in place of the
\* recovered one
tpm_endorse_store_eps_fixed ==
  /\ pc = "store_eps"
  /\ \E envCommit \in BOOLEAN :
       LET e == store_eps(Store, FIXED_ENDORSEMENT_SEED, envCommit)
       IN  /\ SetStore(IF e.ret = 1
                       THEN Logged(e.s, Ev("endorsement_complete", 0, 0, TRUE))
                       ELSE e.s)
           /\ eps' = ZeroWords
           /\ endorsed' = IF e.ret = 1
                          THEN [done |-> TRUE, nv |-> e.s.nv]
                          ELSE endorsed
           /\ Return(e.ret)
  /\ UNCHANGED << calls, region, frk2, kl, wi, hwVars, region6,
                  region7, nvEntry, trace >>

\* store_eps(eps), endorsement_complete, memset(eps, 0), return
tpm_endorse_store_eps ==
  /\ pc = "store_eps"
  /\ \E envCommit \in BOOLEAN :
       LET e == store_eps(Store, eps, envCommit)
       IN  /\ SetStore(IF e.ret = 1
                       THEN Logged(e.s, Ev("endorsement_complete", 0, 0, TRUE))
                       ELSE e.s)
           /\ eps' = ZeroWords
           /\ endorsed' = IF e.ret = 1
                          THEN [done |-> TRUE, nv |-> e.s.nv]
                          ELSE endorsed
           /\ Return(e.ret)
  /\ UNCHANGED << calls, region, frk2, kl, wi, hwVars, region6,
                  region7, nvEntry, trace >>

(***************************************************************************)
(* The specification                                                       *)
(***************************************************************************)
Next ==
  \/ tpm_endorse_enter
  \/ compute_frk2_reset
  \/ hw_key_ladder_step_trigger
  \/ hw_engine_done
  \/ hw_key_ladder_step_done
  \/ compute_frk2_read_key
  \/ get_decrypted_eps_read_word
  \/ get_decrypted_eps_decrypt
  \/ tpm_endorse_rsa_size
  \/ tpm_endorse_ecc_size
  \/ tpm_endorse_hmac
  \/ tpm_endorse_rsa_cert
  \/ tpm_endorse_ecc_cert
  \/ tpm_endorse_store_eps

Spec == Init /\ [][Next]_vars

(***************************************************************************)
(* Vocabulary of the properties                                            *)
(***************************************************************************)
\* tpm_endorse has returned; result, region, trace, log and nvEntry are
\* those of the invocation that returned
AtReturn == pc = "idle" /\ calls > 0

Called(o) == \E i \in DOMAIN log : log[i].op = o

CalledWith(o, ok) == \E i \in DOMAIN log : log[i].op = o /\ log[i].ok = ok

\* no Define, Write, Commit or write of the reserved slot was issued
NoNvOp ==
  \A i \in DOMAIN log :
    log[i].op \notin {"Define", "Write", "Commit", "WriteReserved"}

\* every Define, Write and Commit that was issued succeeded
AllStoreOk ==
  \A i \in DOMAIN log :
    log[i].op \in {"Define", "Write", "Commit"} => log[i].ok

\* the whole key ladder ran and the key was read
FullLadder ==
  << TRIG_RESET, KEYMGR_CERT_0, KEYMGR_CERT_3, KEYMGR_CERT_4, KEYMGR_CERT_5,
     KEYMGR_CERT_7, KEYMGR_CERT_15, KEYMGR_CERT_20 >>
  \o [n \in 1 .. 254 |-> KEYMGR_CERT_25]
  \o << KEYMGR_CERT_26, READ_FRR0 >>

AllWordsRead ==
  \A w \in WordIdx :
    \E i \in DOMAIN log : log[i].op = "read_word" /\ log[i].a = w /\ log[i].ok

SeedRecovered == CalledWith("get_decrypted_eps", TRUE)

\* the seed get_decrypted_eps handed to tpm_endorse
RecoveredSeed ==
  log[CHOOSE i \in DOMAIN log : log[i].op = "get_decrypted_eps"].b

NoObjects(n) == \A x \in NvIndices : ~n.obj[x].defined

Signed == { PROD_ENDORSEMENT_CA_RSA_PUB, TEST_ENDORSEMENT_CA_RSA_PUB }

\* both records pass the region size checks, the component-type checks and
\* the NV buffer bound
RecordsPass(r) ==
  /\ ~RsaSizeBad(r.rsa.len)
  /\ ~EccSizeBad(r.rsa.len, r.ecc.len)
  /\ r.rsa.type = CROS_PERSO_COMPONENT_TYPE_RSA_CERT
  /\ r.ecc.type = CROS_PERSO_COMPONENT_TYPE_P256_CERT
  /\ ~Gt32(r.rsa.len, MAX_NV_BUFFER_SIZE)
  /\ ~Gt32(r.ecc.len, MAX_NV_BUFFER_SIZE)

\* the NV object store_cert leaves for a payload
ObjOf(bytes, len) ==
  [defined |-> TRUE, size |-> len, data |-> [bytes |-> bytes, len |-> len]]

\* the conditions the happy path and the tampered-region scenario share
ScenarioInputs ==
  /\ AtReturn
  /\ NoObjects(nvEntry)
  /\ region.word0 = "written"
  /\ trace = FullLadder
  /\ AllWordsRead
  /\ SeedRecovered
  /\ RecordsPass(region)
  /\ region.rsa_cert \in Signed
  /\ region.ecc_cert \in Signed
  /\ AllStoreOk

(***************************************************************************)
(* C1. Happy path: from an NV store without credential objects, with a     *)
(* personalized region, a fault-free key ladder, successful seed reads,    *)
(* records that pass the size, type and buffer checks, a matching tag,     *)
(* certificates signed by one of the two roots and a store that never      *)
(* fails, tpm_endorse returns 1, the RSA index holds the region's RSA      *)
(* certificate, the ECC index the region's ECC certificate and the seed    *)
(* slot the recovered seed.                                                *)
(***************************************************************************)
C1_Pre ==
  /\ ScenarioInputs
  /\ region.tag = RegionHmac(RecoveredSeed, BodyOf(region))

C1_HappyPath ==
  C1_Pre =>
    /\ result = 1
    /\ nv.obj[EK_CERT_NV_START_INDEX]
         = ObjOf(region.rsa_cert, region.rsa.len.lo)
    /\ nv.obj[EK_CERT_NV_START_INDEX + 1]
         = ObjOf(region.ecc_cert, region.ecc.len.lo)
    /\ nv.seed = RecoveredSeed

C1_Witness ==
  /\ C1_Pre
  /\ result = 1
  /\ region.rsa_cert = PROD_ENDORSEMENT_CA_RSA_PUB
  /\ region.ecc_cert = PROD_ENDORSEMENT_CA_RSA_PUB

(***************************************************************************)
(* C2. tpm_endorse returns 1 exactly when, in that invocation, the seed    *)
(* was recovered, the tag matched, validate_cert accepted and store_cert   *)
(* stored the RSA record and then the ECC record, and store_eps committed  *)
(* the recovered seed; on every other path it returns 0.                   *)
(***************************************************************************)
IsMilestone(e) ==
  e.op \in { "get_decrypted_eps", "memcmp", "install_fixed_certs",
             "validate_cert", "store_cert", "store_eps" }

Milestones == SelectSeq(log, IsMilestone)

Is(e, o, ok) == e.op = o /\ e.ok = ok

TrustedPathDone ==
  LET m == Milestones
  IN  /\ Len(m) = 7
      /\ Is(m[1], "get_decrypted_eps", TRUE)
      /\ Is(m[2], "memcmp", TRUE)
      /\ Is(m[3], "validate_cert", TRUE)
      /\ m[3].a = CROS_PERSO_COMPONENT_TYPE_RSA_CERT
      /\ Is(m[4], "store_cert", TRUE)
      /\ m[4].a = CROS_PERSO_COMPONENT_TYPE_RSA_CERT
      /\ Is(m[5], "validate_cert", TRUE)
      /\ m[5].a = CROS_PERSO_COMPONENT_TYPE_P256_CERT
      /\ Is(m[6], "store_cert", TRUE)
      /\ m[6].a = CROS_PERSO_COMPONENT_TYPE_P256_CERT
      /\ Is(m[7], "store_eps", TRUE)
      /\ m[7].b = m[1].b
      /\ AllStoreOk

C2_EndorsedOnlyIf ==
  AtReturn =>
    /\ result \in {0, 1}
    /\ result = 1 <=> TrustedPathDone

C2_Witness ==
  /\ AtReturn
  /\ result = 1
  /\ TrustedPathDone
  /\ region.rsa_cert = TEST_ENDORSEMENT_CA_RSA_PUB

(***************************************************************************)
(* C3. Unprovisioned chip: when the first word of the region is erased,    *)
(* tpm_endorse returns 0 at once: no key-ladder step, no seed read, no     *)
(* fallback, no NV operation, and the NV store is as it was.               *)
(***************************************************************************)
C3_Unprovisioned ==
  region.word0 = "erased" =>
    /\ pc = "idle"
    /\ result = 0
    /\ trace = << >>
    /\ log = << >>
    /\ nv = nvEntry

C3_Witness ==
  /\ AtReturn
  /\ region.word0 = "erased"
  /\ ~NoObjects(nv)

(***************************************************************************)
(* C4. Tampered region: as the happy path but with a stored tag that       *)
(* differs from the recomputed one, tpm_endorse leaves the fixed seed in   *)
(* the seed slot, the fixed RSA certificate at the RSA index and the fixed *)
(* ECC certificate at the ECC index, writes neither the recovered seed nor *)
(* a certificate of the region, and returns 0.                             *)
(***************************************************************************)
C4_Pre ==
  /\ ScenarioInputs
  /\ region.tag # RegionHmac(RecoveredSeed, BodyOf(region))

NoRegionMaterialWritten ==
  \A i \in DOMAIN log :
    /\ log[i].op = "WriteReserved" => log[i].b # RecoveredSeed
    /\ log[i].op = "Write" => log[i].b.bytes \notin CertBytes

C4_Tampered ==
  C4_Pre =>
    /\ result = 0
    /\ nv.seed = FIXED_ENDORSEMENT_SEED
    /\ nv.obj[EK_CERT_NV_START_INDEX]
         = ObjOf("FIXED_RSA_ENDORSEMENT_CERT",
                 SIZEOF_FIXED_RSA_ENDORSEMENT_CERT)
    /\ nv.obj[EK_CERT_NV_START_INDEX + 1]
         = ObjOf("FIXED_ECC_ENDORSEMENT_CERT",
                 SIZEOF_FIXED_ECC_ENDORSEMENT_CERT)
    /\ NoRegionMaterialWritten

C4_Witness ==
  /\ C4_Pre
  /\ Called("install_fixed_certs")
  /\ nv.obj[EK_CERT_NV_START_INDEX + 1].defined

(***************************************************************************)
(* C5. Every integrity fault triggers the fallback.                        *)
(*                                                                         *)
(* A return before the tag check leaves part of the region unread; the     *)
(* regions the chip can then hold are all those that agree with what was   *)
(* read.                                                                   *)
(***************************************************************************)
HdrsLike(h, lens) ==
  IF h = NoHdr
  THEN { [type |-> t, len |-> l] : t \in HdrTypes, l \in lens }
  ELSE { h }

BytesLike(c) == IF c = "" THEN CertBytes ELSE { c }

RegionsLike(r) ==
  UNION { UNION { UNION {
    { [word0 |-> r.word0, rsa |-> r.rsa, ecc |-> e, rsa_cert |-> rc,
       ecc_cert |-> ec, tag |-> t] :
        t \in IF r.tag = NoTag
              THEN TagsFor([rsa |-> r.rsa, rsa_cert |-> rc, ecc |-> e,
                            ecc_cert |-> ec])
              ELSE { r.tag } } :
    ec \in BytesLike(r.ecc_cert) } :
    rc \in BytesLike(r.rsa_cert) } :
    e \in HdrsLike(r.ecc, EccLens) }

\* the tag of r is not the HMAC of its body under the seed
TagDiffers(r, seed) == r.tag # RegionHmac(seed, BodyOf(r))

\* the claim as made: whatever the declared sizes and component types are,
\* a personalized region whose seed was recovered and whose tag differs
\* from the recomputed HMAC makes tpm_endorse call install_fixed_certs
C5_FallbackWhateverRecords ==
  (AtReturn /\ region.word0 = "written" /\ SeedRecovered) =>
    \A r \in RegionsLike(region) :
      TagDiffers(r, RecoveredSeed) => Called("install_fixed_certs")

SizesAndTypesPass(r) ==
  /\ ~RsaSizeBad(r.rsa.len)
  /\ ~EccSizeBad(r.rsa.len, r.ecc.len)
  /\ r.rsa.type = CROS_PERSO_COMPONENT_TYPE_RSA_CERT
  /\ r.ecc.type = CROS_PERSO_COMPONENT_TYPE_P256_CERT

\* C5, amended: a personalized region whose seed was recovered, whose two
\* records pass both size checks and both component-type checks, and whose
\* tag differs from the recomputed HMAC makes tpm_endorse call
\* install_fixed_certs before it returns
C5_FallbackWhenRecordsPass ==
  (/\ AtReturn
   /\ region.word0 = "written"
   /\ SeedRecovered
   /\ SizesAndTypesPass(region)) =>
    \A r \in RegionsLike(region) :
      TagDiffers(r, RecoveredSeed) => Called("install_fixed_certs")

C5_Witness ==
  /\ AtReturn
  /\ SeedRecovered
  /\ SizesAndTypesPass(region)
  /\ TagDiffers(region, RecoveredSeed)
  /\ Called("install_fixed_certs")
  /\ Gt32(region.rsa.len, MAX_NV_BUFFER_SIZE)

(***************************************************************************)
(* C6. Seed zeroization on every exit: at every return of tpm_endorse      *)
(* that follows the call of get_decrypted_eps, the local buffer eps holds  *)
(* only zeros.                                                             *)
(***************************************************************************)
C6_SeedZeroedAtEveryReturn ==
  (AtReturn /\ region.word0 = "written") => eps = ZeroWords

(***************************************************************************)
(* C7. The INFO read window is never left open: at every return that       *)
(* follows flash_info_read_enable, FLASH_REGION7_CTRL is disabled again.   *)
(***************************************************************************)
C7_InfoWindowClosed ==
  (AtReturn /\ Called("flash_info_read_enable")) => ~region7

(***************************************************************************)
(* C8. Seed-recovery failure is fatal and leaves storage alone: after a    *)
(* key-ladder fault get_decrypted_eps fails without opening the INFO       *)
(* window and without reading a flash word; after a failed flash word read *)
(* it fails too; either way tpm_endorse returns 0 with no NV Define, Write *)
(* or Commit and without installing the fallback.                          *)
(***************************************************************************)
\* the last key-ladder step of this invocation reported a fault
LadderFaulted == Len(trace) >= 2 /\ err_flags

NothingStored ==
  /\ result = 0
  /\ CalledWith("get_decrypted_eps", FALSE)
  /\ NoNvOp
  /\ ~Called("install_fixed_certs")
  /\ nv = nvEntry

C8_SeedRecoveryFailure ==
  AtReturn =>
    /\ LadderFaulted =>
         /\ ~Called("flash_info_read_enable")
         /\ ~Called("read_word")
         /\ \A i \in DOMAIN trace : trace[i] # READ_FRR0
         /\ NothingStored
    /\ CalledWith("read_word", FALSE) => NothingStored

C8_Witness ==
  /\ AtReturn
  /\ CalledWith("read_word", FALSE)
  /\ nv.obj[EK_CERT_NV_START_INDEX].defined

(***************************************************************************)
(* C9. Key-ladder ordering: the hardware accesses of compute_frk2 are a    *)
(* prefix of: engine reset, steps 0, 3, 4, 5, 7, 15, 20, step 25 254       *)
(* times, step 26, read of the key registers; a step that reports a fault  *)
(* is the last one triggered; the key registers are read only after step   *)
(* 26 completed without fault; an invocation derives at most once.         *)
(***************************************************************************)
C9_KeyLadderOrder ==
  /\ Len(trace) <= Len(FullLadder)
  /\ trace = SubSeq(FullLadder, 1, Len(trace))
  /\ (LadderFaulted /\ ~busy /\ pc # "step_poll") =>
       /\ pc = "idle"
       /\ trace[Len(trace)] \notin { TRIG_RESET, READ_FRR0 }
  /\ (trace # << >> /\ trace[Len(trace)] = READ_FRR0) =>
       /\ ~err_flags
       /\ trace[Len(trace) - 1] = KEYMGR_CERT_26

C9_Witness ==
  /\ AtReturn
  /\ LadderFaulted
  /\ Len(trace) = 100
  /\ trace[Len(trace)] = KEYMGR_CERT_25

(***************************************************************************)
(* validate_cert on its own: every component type, declared length and     *)
(* signer                                                                  *)
(***************************************************************************)
InitValidate ==
  /\ pc = "validate_cert"
  /\ calls = 0
  /\ result = 0
  /\ region \in { [NoRegion EXCEPT !.rsa = [type |-> t, len |-> l],
                                   !.rsa_cert = b] :
                    t \in HdrTypes, l \in RsaLens \cup EccLens,
                    b \in CertBytes }
  /\ eps = ZeroWords
  /\ frk2 = ZeroWords
  /\ kl = [cert |-> KEYMGR_CERT_0, i |-> 0]
  /\ wi = 0
  /\ itop = 0
  /\ err_flags = FALSE
  /\ busy = FALSE
  /\ region6 = FALSE
  /\ region7 = FALSE
  /\ nv = EmptyNv
  /\ nvEntry = EmptyNv
  /\ trace = << >>
  /\ log = << >>
  /\ endorsed = NotEndorsed

validate_cert_call ==
  /\ pc = "validate_cert"
  /\ LET v == validate_cert(Store, region.rsa,
                            [bytes |-> region.rsa_cert,
                             len |-> region.rsa.len])
     IN  /\ result' = v.ret
         /\ SetStore(v.s)
  /\ pc' = "validated"
  /\ UNCHANGED << calls, region, eps, frk2, kl, wi, hwVars, region6,
                  region7, nvEntry, trace, endorsed >>

SpecValidate == InitValidate /\ [][validate_cert_call]_vars

(***************************************************************************)
(* C10. validate_cert returns true exactly when the component type is      *)
(* RSA_CERT or P256_CERT, cert_len is at most MAX_NV_BUFFER_SIZE, and the  *)
(* signature verifies under the production root or under the test root.    *)
(***************************************************************************)
C10_ValidateCertIff ==
  pc = "validated" =>
    /\ result \in {0, 1}
    /\ result = 1 <=>
         /\ region.rsa.type \in { CROS_PERSO_COMPONENT_TYPE_RSA_CERT,
                                  CROS_PERSO_COMPONENT_TYPE_P256_CERT }
         /\ ~Gt32(region.rsa.len, MAX_NV_BUFFER_SIZE)
         /\ \/ SignatureVerifies(region.rsa_cert,
                                 PROD_ENDORSEMENT_CA_RSA_PUB)
            \/ SignatureVerifies(region.rsa_cert,
                                 TEST_ENDORSEMENT_CA_RSA_PUB)

C10_Witness ==
  /\ pc = "validated"
  /\ result = 1
  /\ region.rsa_cert = TEST_ENDORSEMENT_CA_RSA_PUB
  /\ region.rsa.len = Small32(MAX_NV_BUFFER_SIZE)

(***************************************************************************)
(* C11. Oversize rejection precedes signature checking and storage: for a  *)
(* record whose cert_len exceeds MAX_NV_BUFFER_SIZE, validate_cert returns *)
(* false without a signature verification, handle_cert issues no NV        *)
(* Define or Write for it, and tpm_endorse returns 0, whoever signed the   *)
(* certificate.                                                            *)
(***************************************************************************)
\* the calls logged after the first call of o
After(o) ==
  SubSeq(log, (CHOOSE i \in DOMAIN log : log[i].op = o) + 1, Len(log))

\* handle_cert of the RSA record succeeded
RsaHandled ==
  \E i \in DOMAIN log :
    /\ log[i].op = "store_cert"
    /\ log[i].a = CROS_PERSO_COMPONENT_TYPE_RSA_CERT
    /\ log[i].ok
    /\ i > 1
    /\ ~Called("install_fixed_certs")

\* the log ends with store_cert of the RSA record followed by o
EndsWithStoreRsaThen(o) ==
  /\ Len(log) >= 2
  /\ log[Len(log)].op = o
  /\ ~log[Len(log)].ok
  /\ log[Len(log) - 1].op = "store_cert"

C11_OversizeRejectedFirst ==
  (AtReturn /\ CalledWith("memcmp", TRUE)) =>
    /\ Gt32(region.rsa.len, MAX_NV_BUFFER_SIZE) =>
         /\ Len(After("memcmp")) = 1
         /\ After("memcmp")[1].op = "validate_cert"
         /\ ~After("memcmp")[1].ok
         /\ result = 0
         /\ nv = nvEntry
    /\ (RsaHandled /\ Gt32(region.ecc.len, MAX_NV_BUFFER_SIZE)) =>
         /\ EndsWithStoreRsaThen("validate_cert")
         /\ log[Len(log)].a = CROS_PERSO_COMPONENT_TYPE_P256_CERT
         /\ result = 0
         /\ nv.obj[EK_CERT_NV_START_INDEX + 1]
              = nvEntry.obj[EK_CERT_NV_START_INDEX + 1]

C11_Witness ==
  /\ AtReturn
  /\ RsaHandled
  /\ Gt32(region.ecc.len, MAX_NV_BUFFER_SIZE)
  /\ region.ecc_cert = PROD_ENDORSEMENT_CA_RSA_PUB
  /\ result = 0

(***************************************************************************)
(* C12. Bad component type: when the RSA record does not declare the type  *)
(* RSA_CERT, tpm_endorse returns 0 and issues no NV Define, Write or       *)
(* Commit; no object is created at EK_CERT_NV_START_INDEX.                 *)
(***************************************************************************)
C12_BadRsaTypeRejected ==
  (/\ AtReturn
   /\ SeedRecovered
   /\ region.rsa.type # CROS_PERSO_COMPONENT_TYPE_RSA_CERT) =>
    /\ result = 0
    /\ NoNvOp
    /\ ~Called("store_cert")
    /\ nv = nvEntry

C12_Witness ==
  /\ AtReturn
  /\ SeedRecovered
  /\ region.rsa.type = CROS_PERSO_COMPONENT_TYPE_P256_CERT
  /\ region.ecc.type = CROS_PERSO_COMPONENT_TYPE_P256_CERT
  /\ ~RsaSizeBad(region.rsa.len)
  /\ ~EccSizeBad(region.rsa.len, region.ecc.len)
  /\ ~nv.obj[EK_CERT_NV_START_INDEX].defined

(***************************************************************************)
(* C13. A later attempt never corrupts a prior successful endorsement:     *)
(* once an invocation has returned 1, every later invocation that returns  *)
(* 0 leaves the seed slot and both certificate indices as the successful   *)
(* invocation left them.                                                   *)
(***************************************************************************)
C13_PriorEndorsementKept ==
  (AtReturn /\ endorsed.done /\ result = 0) =>
    /\ nv.seed = endorsed.nv.seed
    /\ nv.obj = endorsed.nv.obj

(***************************************************************************)
(* C14. store_cert issues Define, Write and Commit in this order, each     *)
(* only after the one before it succeeded, and returns success only when   *)
(* all three succeeded; a Write that succeeded followed by a Commit that   *)
(* failed is reported as failure.                                          *)
(***************************************************************************)
\* log[j] is the return of a store_cert call: the calls it made, read
\* backwards from its return
StoreCertCallsInOrder(j) ==
  /\ j > 1
  /\ log[j - 1].op \in {"Define", "Write", "Commit"}
  /\ log[j - 1].op = "Define" =>
       /\ ~log[j - 1].ok
       /\ ~log[j].ok
  /\ log[j - 1].op = "Write" =>
       /\ ~log[j - 1].ok
       /\ ~log[j].ok
       /\ log[j - 2].op = "Define" /\ log[j - 2].ok
  /\ log[j - 1].op = "Commit" =>
       /\ log[j].ok = log[j - 1].ok
       /\ log[j - 2].op = "Write" /\ log[j - 2].ok
       /\ log[j - 3].op = "Define" /\ log[j - 3].ok

\* log[i] is a Define or a Write: it follows the entry of store_cert or a
\* Define that succeeded, and is followed by the next call or the return
StoreCallPlaced(i) ==
  /\ i > 1 /\ i < Len(log)
  /\ log[i].op = "Define" =>
       /\ log[i - 1].op \in {"validate_cert", "store_eps", "store_cert"}
       /\ log[i + 1].op = IF log[i].ok THEN "Write" ELSE "store_cert"
  /\ log[i].op = "Write" =>
       /\ log[i - 1].op = "Define"
       /\ log[i + 1].op = IF log[i].ok THEN "Commit" ELSE "store_cert"

C14_StoreCertOrder ==
  \A j \in DOMAIN log :
    /\ log[j].op = "store_cert" => StoreCertCallsInOrder(j)
    /\ log[j].op \in {"Define", "Write"} => StoreCallPlaced(j)

C14_Witness ==
  /\ AtReturn
  /\ \E j \in DOMAIN log :
       /\ log[j].op = "store_cert"
       /\ ~log[j].ok
       /\ log[j - 1].op = "Commit"
       /\ log[j - 2].op = "Write"
       /\ log[j - 2].ok

(***************************************************************************)
(* C15. Write-once credentials: store_cert on an index that is already     *)
(* defined fails without issuing a Write or a Commit, so the object keeps  *)
(* its contents; no operation deletes or redefines a certificate index.    *)
(***************************************************************************)
C15_WriteOnce ==
  \A x \in NvIndices :
    /\ nvEntry.obj[x].defined =>
         /\ nv.obj[x] = nvEntry.obj[x]
         /\ \A i \in DOMAIN log :
              /\ (log[i].op = "Define" /\ log[i].a = x) =>
                   /\ ~log[i].ok
                   /\ i < Len(log)
                   /\ log[i + 1].op = "store_cert"
                   /\ ~log[i + 1].ok
              /\ log[i].op = "Write" => log[i].a # x
    \* within one invocation an index is defined at most once
    /\ \A i \in DOMAIN log :
         (log[i].op = "Define" /\ log[i].a = x /\ log[i].ok) =>
           \A j \in DOMAIN log :
             (j > i /\ log[j].op = "Define" /\ log[j].a = x) => ~log[j].ok
    \* an index that was defined stays defined
    /\ (\E i \in DOMAIN log :
          log[i].op = "Define" /\ log[i].a = x /\ log[i].ok) =>
         nv.obj[x].defined

C15_Witness ==
  /\ AtReturn
  /\ nvEntry.obj[EK_CERT_NV_START_INDEX].data.bytes
       = "FIXED_RSA_ENDORSEMENT_CERT"
  /\ region.rsa_cert = PROD_ENDORSEMENT_CA_RSA_PUB
  /\ \E i \in DOMAIN log :
       /\ log[i].op = "Define"
       /\ log[i].a = EK_CERT_NV_START_INDEX
       /\ ~log[i].ok
       /\ log[i - 1].op = "validate_cert"
       /\ log[i - 1].ok

(***************************************************************************)
(* C16. Index selection: store_cert defines and writes index               *)
(* EK_CERT_NV_START_INDEX for an RSA_CERT and EK_CERT_NV_START_INDEX + 1   *)
(* for a P256_CERT, the Define and the Write of one call name the same     *)
(* index, dataSize is the length of the payload, and the seed goes to the  *)
(* reserved slot NV_EP_SEED only, never to a certificate index.            *)
(***************************************************************************)
\* log[j] is the return of a store_cert call: where its Define is
DefineOf(j) ==
  IF log[j - 1].op = "Define" THEN j - 1
  ELSE IF log[j - 1].op = "Write" THEN j - 2
  ELSE j - 3

\* the length of the payload the call was given, as a 32-bit value
PayloadLen(j) ==
  IF log[j].b = "FIXED_RSA_ENDORSEMENT_CERT"
  THEN Small32(SIZEOF_FIXED_RSA_ENDORSEMENT_CERT)
  ELSE IF log[j].b = "FIXED_ECC_ENDORSEMENT_CERT"
  THEN Small32(SIZEOF_FIXED_ECC_ENDORSEMENT_CERT)
  ELSE IF log[j].a = CROS_PERSO_COMPONENT_TYPE_RSA_CERT
  THEN region.rsa.len
  ELSE region.ecc.len

StoreCertIndex(j) ==
  LET d == DefineOf(j)
      x == IF log[j].a = CROS_PERSO_COMPONENT_TYPE_RSA_CERT
           THEN EK_CERT_NV_START_INDEX
           ELSE EK_CERT_NV_START_INDEX + 1
  IN  /\ log[j].a \in { CROS_PERSO_COMPONENT_TYPE_RSA_CERT,
                        CROS_PERSO_COMPONENT_TYPE_P256_CERT }
      /\ log[d].op = "Define"
      /\ log[d].a = x
      /\ Small32(log[d].b) = PayloadLen(j)
      /\ log[d + 1].op = "Write" =>
           /\ log[d + 1].a = x
           /\ log[d + 1].b.len = log[d].b
           /\ log[d + 1].b.bytes = log[j].b

C16_IndexSelection ==
  /\ \A j \in DOMAIN log :
       /\ log[j].op = "store_cert" => StoreCertIndex(j)
       /\ log[j].op = "WriteReserved" =>
            /\ log[j].a = "NV_EP_SEED"
            /\ nv.seed = log[j].b
       /\ log[j].op = "Write" =>
            /\ log[j].a \in NvIndices
            /\ log[j].b.bytes \in CertBytes \cup
                 { "FIXED_RSA_ENDORSEMENT_CERT", "FIXED_ECC_ENDORSEMENT_CERT" }
  /\ \A x \in NvIndices :
       nv.obj[x].data.bytes \in CertBytes \cup
         { "", "FIXED_RSA_ENDORSEMENT_CERT", "FIXED_ECC_ENDORSEMENT_CERT" }

C16_Witness ==
  /\ AtReturn
  /\ result = 1
  /\ region.ecc.len = Small32(992)
  /\ nv.obj[EK_CERT_NV_START_INDEX + 1].size = 992
  /\ nv.obj[EK_CERT_NV_START_INDEX].size = MAX_NV_BUFFER_SIZE

(***************************************************************************)
(* C17. Trusted-path ordering: once the tag matched, the operations are    *)
(* validate RSA, store RSA, validate ECC, store ECC, store seed, in this   *)
(* order, each one only after all earlier ones succeeded; after a failed   *)
(* RSA validation or storage the ECC certificate is neither validated nor  *)
(* stored, and the recovered seed is written only after both certificates  *)
(* were stored.                                                            *)
(***************************************************************************)
TrustedPathOps ==
  << "validate_cert", "store_cert", "validate_cert", "store_cert",
     "store_eps" >>

TrustedPathTypes ==
  << CROS_PERSO_COMPONENT_TYPE_RSA_CERT, CROS_PERSO_COMPONENT_TYPE_RSA_CERT,
     CROS_PERSO_COMPONENT_TYPE_P256_CERT,
     CROS_PERSO_COMPONENT_TYPE_P256_CERT >>

\* what was done after the tag comparison
TrustedPath == SelectSeq(After("memcmp"), IsMilestone)

C17_TrustedPathOrder ==
  CalledWith("memcmp", TRUE) =>
    LET m == TrustedPath
    IN  /\ Len(m) <= Len(TrustedPathOps)
        /\ \A i \in DOMAIN m :
             /\ m[i].op = TrustedPathOps[i]
             /\ i <= Len(TrustedPathTypes) => m[i].a = TrustedPathTypes[i]
             /\ i < Len(m) => m[i].ok
        /\ Called("WriteReserved") =>
             /\ Len(m) = Len(TrustedPathOps)
             /\ m[Len(m)].b = RecoveredSeed
        /\ AtReturn =>
             /\ Len(m) >= 1
             /\ Len(m) = Len(TrustedPathOps) \/ ~m[Len(m)].ok

C17_Witness ==
  /\ AtReturn
  /\ CalledWith("memcmp", TRUE)
  /\ Len(TrustedPath) = 2
  /\ TrustedPath[1].ok
  /\ ~TrustedPath[2].ok
  /\ region.ecc_cert = PROD_ENDORSEMENT_CA_RSA_PUB
  /\ ~Gt32(region.ecc.len, MAX_NV_BUFFER_SIZE)
  /\ ~nv.obj[EK_CERT_NV_START_INDEX + 1].defined

(***************************************************************************)
(* C18. No rollback on storage failure: when the RSA certificate was       *)
(* stored and the validation or storage of the ECC certificate then fails, *)
(* or both certificates were stored and the commit of the seed then fails, *)
(* tpm_endorse returns 0 and the objects committed earlier in the          *)
(* invocation stay defined with the contents written.                      *)
(***************************************************************************)
\* store_cert succeeded for the record of component type t
Stored(t) ==
  \E i \in DOMAIN log :
    log[i].op = "store_cert" /\ log[i].a = t /\ log[i].ok

C18_NoRollback ==
  (AtReturn /\ CalledWith("memcmp", TRUE)) =>
    /\ (/\ Stored(CROS_PERSO_COMPONENT_TYPE_RSA_CERT)
        /\ ~Stored(CROS_PERSO_COMPONENT_TYPE_P256_CERT)) =>
         /\ result = 0
         /\ nv.obj[EK_CERT_NV_START_INDEX]
              = ObjOf(region.rsa_cert, region.rsa.len.lo)
    /\ (/\ Stored(CROS_PERSO_COMPONENT_TYPE_P256_CERT)
        /\ CalledWith("store_eps", FALSE)) =>
         /\ result = 0
         /\ nv.obj[EK_CERT_NV_START_INDEX]
              = ObjOf(region.rsa_cert, region.rsa.len.lo)
         /\ nv.obj[EK_CERT_NV_START_INDEX + 1]
              = ObjOf(region.ecc_cert, region.ecc.len.lo)

C18_Witness ==
  /\ AtReturn
  /\ CalledWith("memcmp", TRUE)
  /\ Stored(CROS_PERSO_COMPONENT_TYPE_RSA_CERT)
  /\ ~Stored(CROS_PERSO_COMPONENT_TYPE_P256_CERT)
  /\ CalledWith("validate_cert", FALSE)
  /\ result = 0
  /\ nv.obj[EK_CERT_NV_START_INDEX].data.bytes = TEST_ENDORSEMENT_CA_RSA_PUB

(***************************************************************************)
(* C19. Region-integrity check: the tag comparison succeeds exactly when   *)
(* the last 32 bytes of the region are                                     *)
(* HMAC(HMAC(seed, "RSA"), region[0:2016]); from a matching region, a      *)
(* change of the body or of the tag makes the comparison fail.             *)
(***************************************************************************)
\* record headers other than h
OtherHdrs(h, lens) ==
  { [type |-> t, len |-> l] : t \in HdrTypes, l \in lens } \ { h }

\* the regions that differ from r in one place: a header, a certificate
\* or the tag
Variants(r) ==
  { [r EXCEPT !.rsa = h] : h \in OtherHdrs(r.rsa, RsaLens) }
  \cup { [r EXCEPT !.ecc = h] : h \in OtherHdrs(r.ecc, EccLens) }
  \cup { [r EXCEPT !.rsa_cert = c] : c \in CertBytes \ { r.rsa_cert } }
  \cup { [r EXCEPT !.ecc_cert = c] : c \in CertBytes \ { r.ecc_cert } }
  \cup { [r EXCEPT !.tag = t] : t \in TagsFor(BodyOf(r)) \ { r.tag } }

C19_RegionIntegrity ==
  Called("memcmp") =>
    /\ CalledWith("memcmp", TRUE)
         <=> region.tag = RegionHmac(RecoveredSeed, BodyOf(region))
    /\ (pc = "rsa_cert" /\ CalledWith("memcmp", TRUE)) =>
         \A r \in Variants(region) : TagMismatch(r, RecoveredSeed)

C19_Witness ==
  /\ pc = "rsa_cert"
  /\ CalledWith("memcmp", TRUE)
  /\ region.tag = RegionHmac(RecoveredSeed, BodyOf(region))
  /\ RecoveredSeed = XorWords(INFO1_EPS, [i \in WordIdx |-> 165])

(***************************************************************************)
(* C20. Record bounds check: when the RSA size check passes, the ECC       *)
(* record header read at offset 16 + rsa_len lies inside the 2048-byte     *)
(* region; when both size checks pass, both records, headers and           *)
(* certificate bytes, lie inside the region; nothing at an offset derived  *)
(* from a declared size is read before the check of that size passed.      *)
(***************************************************************************)
\* the n bytes at the 32-bit offset off lie inside the region
InRegion(off, n) ==
  /\ off.hi = 0
  /\ off.lo + n <= RO_CERTS_REGION_SIZE

\* len bytes (a 32-bit count) at the 32-bit offset off lie inside the region
BytesInRegion(off, len) ==
  /\ len.hi = 0
  /\ InRegion(off, len.lo)

\* the ECC header is unpacked only after the RSA size check passed, the
\* certificate bytes only after both size checks passed
ChecksPrecedeReads ==
  /\ region.ecc # NoHdr => ~RsaSizeBad(region.rsa.len)
  /\ region.rsa_cert # "" =>
       /\ ~RsaSizeBad(region.rsa.len)
       /\ ~EccSizeBad(region.rsa.len, region.ecc.len)

C20_RecordBounds ==
  /\ (region.rsa # NoHdr /\ ~RsaSizeBad(region.rsa.len)) =>
       InRegion(EccOffset(region.rsa.len), SIZEOF_RO_CERT)
  /\ (/\ region.ecc # NoHdr
      /\ ~RsaSizeBad(region.rsa.len)
      /\ ~EccSizeBad(region.rsa.len, region.ecc.len)) =>
       /\ BytesInRegion(Small32(SIZEOF_RO_CERT), region.rsa.len)
       /\ BytesInRegion(Add32(EccOffset(region.rsa.len),
                              Small32(SIZEOF_RO_CERT)),
                        region.ecc.len)
  /\ ChecksPrecedeReads

\* ---------------------------------------------------------------
\* Termination of an invocation

\* the steps the CPU takes inside one tpm_endorse invocation, from
\* the first instruction after entry to the return
ProgramStep ==
  \/ compute_frk2_reset
  \/ hw_key_ladder_step_trigger
  \/ hw_key_ladder_step_done
  \/ compute_frk2_read_key
  \/ get_decrypted_eps_read_word
  \/ get_decrypted_eps_decrypt
  \/ tpm_endorse_rsa_size
  \/ tpm_endorse_ecc_size
  \/ tpm_endorse_hmac
  \/ tpm_endorse_rsa_cert
  \/ tpm_endorse_ecc_cert
  \/ tpm_endorse_store_eps

\* the chip before its last boot of the run: every earlier boot found
\* the certificate region erased and returned at once, so the NV store
\* is still empty and the certificate window is open
InitLive ==
  /\ pc = "idle"
  /\ calls = MaxCalls - 1
  /\ result = 0
  /\ region = [NoRegion EXCEPT !.word0 = "erased"]
  /\ eps \in StackGarbage
  /\ frk2 = ZeroWords
  /\ kl = [cert |-> KEYMGR_CERT_0, i |-> 0]
  /\ wi = 0
  /\ itop \in {0, 1}
  /\ err_flags = FALSE
  /\ busy = FALSE
  /\ region6 = TRUE
  /\ region7 = FALSE
  /\ nv = EmptyNv
  /\ nvEntry = EmptyNv
  /\ trace = << >>
  /\ log = << >>
  /\ endorsed = NotEndorsed

\* the CPU keeps executing the invocation; the engine is left free to
\* answer a trigger or not
SpecLive == InitLive /\ [][Next]_vars /\ WF_vars(ProgramStep)

\* C21: if the engine answers every trigger (weak fairness of its
\* completion), every started invocation returns; whether it does or
\* not, an invocation that has not returned is either about to take
\* a step or is polling in hw_key_ladder_step with the status still
\* zero, so the poll is the only place it can stay for ever
C21_Termination ==
  /\ WF_vars(hw_engine_done) => ((pc # "idle") ~> (pc = "idle"))
  /\ [](pc # "idle" /\ ~ ENABLED ProgramStep
          => pc = "step_poll" /\ itop = 0 /\ busy)

C21_Witness ==
  /\ AtReturn
  /\ calls = MaxCalls
  /\ result = 1
  /\ Len(trace) = Len(FullLadder)

\* ---------------------------------------------------------------
\* The derived key

\* compute_frk2 copied the derived key into frk2
KeyFilled == trace # << >> /\ trace[Len(trace)] = READ_FRR0

\* every value the unmasking can produce from the stored words
Unmasked == { XorWords(INFO1_EPS, k) : k \in LadderKeys }

\* C22: once get_decrypted_eps has returned with frk2 filled, on
\* success and on a failed word read alike, frk2 is all zeros; the key
\* is held only while the words are read and unmasked, and the seed
\* handed back is the stored words XOR the key
C22_KeyZeroized ==
  /\ (KeyFilled /\ Called("get_decrypted_eps")) => frk2 = ZeroWords
  /\ frk2 # ZeroWords => (KeyFilled /\ pc \in {"read_word", "decrypt"})
  /\ SeedRecovered => RecoveredSeed \in Unmasked

C22_Witness ==
  /\ AtReturn
  /\ KeyFilled
  /\ CalledWith("read_word", TRUE)
  /\ CalledWith("read_word", FALSE)
  /\ frk2 = ZeroWords

\* ---------------------------------------------------------------
\* The protocol of one key-ladder step

\* at least one step of this invocation was triggered
StepTriggered == Len(trace) >= 2

\* C23: from the trigger of a step until the engine completes it the
\* status register is zero, so the poll of a step ends only on the
\* completion of that very step and never on a flag left by an earlier
\* one; once the poll has ended the status is cleared again, so it is
\* zero after every completed step; and the certificate programmed for
\* the step is the one the ladder is at
C23_StepProtocol ==
  /\ busy => (pc = "step_poll" /\ itop = 0)
  /\ (pc = "step_poll" /\ itop # 0) => ~busy
  /\ (pc # "step_poll" /\ StepTriggered) => itop = 0
  /\ pc = "step_poll" => trace[Len(trace)] = kl.cert

C23_Witness ==
  /\ pc = "step_poll"
  /\ kl.cert = KEYMGR_CERT_26
  /\ itop # 0
  /\ ~busy

\* ---------------------------------------------------------------
\* The fallback installation

IsStoreCall(e) == e.op \in {"store_eps", "store_cert"}

\* the store_eps and store_cert calls install_fixed_certs made, in order
FallbackCalls == SelectSeq(After("install_fixed_certs"), IsStoreCall)

\* the calls install_fixed_certs makes when none fails
FallbackPlan ==
  << [op |-> "store_eps", a |-> 0, b |-> FIXED_ENDORSEMENT_SEED],
     [op |-> "store_cert", a |-> CROS_PERSO_COMPONENT_TYPE_RSA_CERT,
      b |-> "FIXED_RSA_ENDORSEMENT_CERT"],
     [op |-> "store_cert", a |-> CROS_PERSO_COMPONENT_TYPE_P256_CERT,
      b |-> "FIXED_ECC_ENDORSEMENT_CERT"] >>

\* C24: the fallback stores the fixed seed, then the fixed RSA
\* certificate, then the fixed ECC certificate, and makes no call after
\* the first that fails; what the calls before the failure wrote is
\* still in the store at the return; and tpm_endorse returns 0 however
\* far the installation got
C24_FallbackOrder ==
  (AtReturn /\ Called("install_fixed_certs")) =>
    /\ Len(FallbackCalls) \in 1 .. 3
    /\ \A i \in DOMAIN FallbackCalls :
         /\ FallbackCalls[i].op = FallbackPlan[i].op
         /\ FallbackCalls[i].a = FallbackPlan[i].a
         /\ FallbackCalls[i].b = FallbackPlan[i].b
         /\ i < Len(FallbackCalls) => FallbackCalls[i].ok
    /\ Len(FallbackCalls) < 3 => ~FallbackCalls[Len(FallbackCalls)].ok
    /\ nv.seed = FIXED_ENDORSEMENT_SEED
    /\ (Len(FallbackCalls) >= 2 /\ FallbackCalls[2].ok) =>
         nv.obj[EK_CERT_NV_START_INDEX]
           = ObjOf("FIXED_RSA_ENDORSEMENT_CERT",
                   SIZEOF_FIXED_RSA_ENDORSEMENT_CERT)
    /\ result = 0

C24_Witness ==
  /\ AtReturn
  /\ Called("install_fixed_certs")
  /\ Len(FallbackCalls) = 3
  /\ FallbackCalls[2].ok
  /\ ~FallbackCalls[3].ok
  /\ nv.obj[EK_CERT_NV_START_INDEX].data.bytes = "FIXED_RSA_ENDORSEMENT_CERT"

\* ---------------------------------------------------------------
\* The records and the tag

\* the n bytes at the 32-bit offset off lie before the tag
BeforeTag(off, n) ==
  /\ off.hi = 0
  /\ off.lo + n <= RO_CERTS_REGION_SIZE - TAG_SIZE

\* C25: when both size checks of tpm_endorse pass, the RSA record and
\* the ECC record, headers and declared certificate bytes, lie within
\* the bytes of the region that precede the 32-byte tag.  Stated for
\* declared sizes below 2^16, whose sums do not wrap.
C25_RecordsClearOfTag ==
  (/\ region.ecc # NoHdr
   /\ region.rsa.len.hi = 0
   /\ region.ecc.len.hi = 0
   /\ ~RsaSizeBad(region.rsa.len)
   /\ ~EccSizeBad(region.rsa.len, region.ecc.len)) =>
    /\ BeforeTag(Small32(0), SIZEOF_RO_CERT + region.rsa.len.lo)
    /\ BeforeTag(EccOffset(region.rsa.len),
                 SIZEOF_RO_CERT + region.ecc.len.lo)

\* ---------------------------------------------------------------
\* The flash read windows

\* C26: when tpm_endorse returns, on any path, the read window on the
\* certificate region (FLASH_REGION6) and the read window on the INFO
\* region (FLASH_REGION7) it opened are both disabled
C26_WindowsClosedAtExit ==
  AtReturn => (~region6 /\ ~region7)

\* ---------------------------------------------------------------
\* Authentication before storage

\* the tag check passed before the i-th call of the invocation
TagCheckedBefore(i) ==
  \E j \in 1 .. i - 1 : log[j].op = "memcmp" /\ log[j].ok

\* validate_cert accepted, before the i-th call, the record whose
\* certificate that call writes
AcceptedBefore(i) ==
  \E k \in 1 .. i - 1 :
    /\ log[k].op = "validate_cert"
    /\ log[k].ok
    /\ log[k].b = log[i].b.bytes
    /\ NvIndexOf(log[k].a) = log[i].a

\* C27: validate_cert is called only after the tag check of the region
\* passed; a certificate of the region is written to an NV index only
\* after the tag check passed, with the stored tag equal to the HMAC of
\* the region under the recovered seed, and after validate_cert
\* accepted that record
C27_AuthenticatedBeforeStored ==
  \A i \in DOMAIN log :
    /\ log[i].op = "validate_cert" => TagCheckedBefore(i)
    /\ log[i].op = "Write" =>
         (log[i].b.bytes \in CertBytes =>
            /\ TagCheckedBefore(i)
            /\ region.tag = RegionHmac(RecoveredSeed, BodyOf(region))
            /\ AcceptedBefore(i))

C27_Witness ==
  /\ AtReturn
  /\ \E i \in DOMAIN log :
       /\ log[i].op = "Write"
       /\ log[i].a = EK_CERT_NV_START_INDEX + 1
       /\ log[i].ok
       /\ log[i].b.bytes = region.ecc_cert
       /\ AcceptedBefore(i)

\* ---------------------------------------------------------------
\* Endorsement happens once

\* this invocation started after an invocation had returned 1: the
\* certificate objects it found are those the successful one left
AfterEndorsement == endorsed.done /\ nvEntry.obj = endorsed.nv.obj

\* validate_cert accepted the RSA record in this invocation
RsaAccepted ==
  \E i \in DOMAIN log :
    /\ log[i].op = "validate_cert"
    /\ log[i].a = CROS_PERSO_COMPONENT_TYPE_RSA_CERT
    /\ log[i].ok

\* C28: an invocation that returns 1 is never one made after an
\* earlier return of 1, so over any run at most one invocation returns
\* 1; an invocation made after a successful one changes no NV object,
\* and when the tag of its region matches and its RSA record is
\* accepted, it ends with the failed Define of the RSA index, returns
\* 0 and leaves the whole NV store as it found it
C28_EndorseOnce ==
  /\ (AtReturn /\ result = 1) => (endorsed.done /\ ~AfterEndorsement)
  /\ AfterEndorsement => nv.obj = nvEntry.obj
  /\ (AtReturn /\ AfterEndorsement /\ RsaAccepted) =>
       /\ result = 0
       /\ nv = nvEntry
       /\ Len(log) >= 2
       /\ log[Len(log)].op = "store_cert"
       /\ ~log[Len(log)].ok
       /\ log[Len(log) - 1].op = "Define"
       /\ log[Len(log) - 1].a = EK_CERT_NV_START_INDEX
       /\ ~log[Len(log) - 1].ok

C28_Witness ==
  /\ AtReturn
  /\ AfterEndorsement
  /\ RsaAccepted
  /\ result = 0
  /\ nv.obj[EK_CERT_NV_START_INDEX].data.bytes = region.rsa_cert

\* ---------------------------------------------------------------
\* One identity per attempt

EmptyStoreAtEntry == calls > 0 /\ nvEntry = EmptyNv

\* the seed slot is untouched or holds s, and every certificate object
\* is undefined, defined and not yet written, or holds one of certs
StoreHoldsOnly(s, certs) ==
  /\ nv.seed \in {UnsetSeed, s}
  /\ \A x \in NvIndices :
       nv.obj[x].defined => nv.obj[x].data.bytes \in certs \cup {""}

\* every seed and certificate this invocation wrote is among s and certs
WroteOnly(s, certs) ==
  \A i \in DOMAIN log :
    /\ log[i].op = "WriteReserved" => log[i].b = s
    /\ log[i].op = "Write" => log[i].b.bytes \in certs

RegionIdentity ==
  /\ SeedRecovered
  /\ StoreHoldsOnly(RecoveredSeed, {region.rsa_cert, region.ecc_cert})
  /\ WroteOnly(RecoveredSeed, {region.rsa_cert, region.ecc_cert})

FixedIdentity ==
  /\ StoreHoldsOnly(FIXED_ENDORSEMENT_SEED,
                    {"FIXED_RSA_ENDORSEMENT_CERT",
                     "FIXED_ECC_ENDORSEMENT_CERT"})
  /\ WroteOnly(FIXED_ENDORSEMENT_SEED,
               {"FIXED_RSA_ENDORSEMENT_CERT", "FIXED_ECC_ENDORSEMENT_CERT"})

\* C29: during and after an invocation started on an empty NV store,
\* what it has written is either only material of the region (its two
\* certificates, the recovered seed) or only fixed material (the fixed
\* seed, the two fixed certificates); on the fallback path the
\* recovered seed is not in the seed slot, and once the tag matched the
\* fixed seed is not
C29_NoMixedIdentity ==
  EmptyStoreAtEntry =>
    /\ nv = EmptyNv \/ RegionIdentity \/ FixedIdentity
    /\ Called("install_fixed_certs") =>
         (FixedIdentity /\ nv.seed # RecoveredSeed)
    /\ CalledWith("memcmp", TRUE) =>
         (RegionIdentity /\ nv.seed # FIXED_ENDORSEMENT_SEED)

C29_Witness ==
  /\ AtReturn
  /\ EmptyStoreAtEntry
  /\ CalledWith("memcmp", TRUE)
  /\ result = 0
  /\ nv.obj[EK_CERT_NV_START_INDEX].data.bytes = region.rsa_cert
  /\ nv.obj[EK_CERT_NV_START_INDEX + 1].data.bytes = region.ecc_cert
  /\ nv.seed = RecoveredSeed

\* ---------------------------------------------------------------
\* The NV write buffer

\* cert_len of the store_cert call that returned at log[j]: the size of
\* the fixed certificate, or the size the record of that type declares
CertLenOf(j) ==
  CASE log[j].b = "FIXED_RSA_ENDORSEMENT_CERT"
         -> Small32(SIZEOF_FIXED_RSA_ENDORSEMENT_CERT)
    [] log[j].b = "FIXED_ECC_ENDORSEMENT_CERT"
         -> Small32(SIZEOF_FIXED_ECC_ENDORSEMENT_CERT)
    [] OTHER
         -> IF log[j].a = CROS_PERSO_COMPONENT_TYPE_RSA_CERT
            THEN region.rsa.len ELSE region.ecc.len

\* C30: in every store_cert call tpm_endorse makes, for a certificate
\* of the region and for either fixed certificate, cert_len, the count
\* of bytes copied into the NV write buffer, is at most
\* MAX_NV_BUFFER_SIZE, and so is the size of every Write issued
C30_WriteBufferBound ==
  \A i \in DOMAIN log :
    /\ log[i].op = "store_cert" =>
         ~Gt32(CertLenOf(i), MAX_NV_BUFFER_SIZE)
    /\ log[i].op = "Write" => log[i].b.len <= MAX_NV_BUFFER_SIZE

C30_Witness ==
  /\ AtReturn
  /\ region.rsa.len = Small32(MAX_NV_BUFFER_SIZE)
  /\ \E i \in DOMAIN log :
       /\ log[i].op = "Write"
       /\ log[i].a = EK_CERT_NV_START_INDEX
       /\ log[i].b.len = MAX_NV_BUFFER_SIZE
       /\ log[i].b.bytes = region.rsa_cert
       /\ log[i].ok

====
